---- MODULE Spec2Model ----
(***************************************************************************)
(* Model of the glTF scene viewer in src/src/main.rs: the command-line     *)
(* scene-reference parser (parse_scene), the Startup system (setup) and    *)
(* the PreUpdate system (setup_scene_after_load).                          *)
(*                                                                         *)
(* Strings are sequences of one-character strings.  Option<T> is a         *)
(* sequence of length at most one: << >> is None and <<v>> is Some(v).     *)
(* Vec3/Vec3A are triples of integers on a unit grid; the square root of   *)
(* a length is rounded to the nearest grid point, as a floating-point      *)
(* square root is rounded to the nearest representable value.              *)
(***************************************************************************)
EXTENDS Integers, Sequences, FiniteSets, TLC

VARIABLES
    args,          \* std::env::args().nth(1): Option<String>
    started,       \* the Startup system has inserted the SceneHandle resource
    file_path,     \* path handed to asset_server.load
    scene_index,   \* SceneHandle.scene_index
    is_loaded,     \* SceneHandle.is_loaded
    has_light,     \* SceneHandle.has_light
    setup,         \* Local<bool> of setup_scene_after_load
    meshes,        \* entities matched by the meshes query, in iteration order
    spawned,       \* entities spawned through Commands, in spawn order
    bbox,          \* Option<(min, max)>: the accumulator of the last completed merge
    frame          \* what the last invocation of setup_scene_after_load saw and did

vars == <<args, started, file_path, scene_index, is_loaded, has_light,
          setup, meshes, spawned, bbox, frame>>

None == << >>
Some(v) == <<v>>

\* ------------------------------------------------------------------------
\* Bounds
\* ------------------------------------------------------------------------
\* usize::MAX, scaled down so that an overflowing digit string is short
MaxUsize == 255
\* longest suffix appended after the keyword of a generated argument
MaxTail == 3
\* largest number of mesh instances in the scene
MaxMeshes == 2
\* the frame counter saturates here
MaxFrames == 3
\* stand-in for f32::MAX (and, negated, f32::MIN)
F32Max == 100000

\* ------------------------------------------------------------------------
\* Strings
\* ------------------------------------------------------------------------
DigitChars == <<"0", "1", "2", "3", "4", "5", "6", "7", "8", "9">>
IsDigit(c) == \E i \in 1..10 : DigitChars[i] = c
DigitVal(c) == (CHOOSE i \in 1..10 : DigitChars[i] = c) - 1

ScenePrefix == <<"S", "c", "e", "n", "e">>
DefaultScenePath ==
    <<"a","s","s","e","t","s","/","r","o","t","a","r","y","_",
      "p","e","n","d","u","l","u","m",".","g","l","b">>

\* str::contains(char)
Contains(s, c) == \E i \in 1..Len(s) : s[i] = c

\* str::split(char).collect::<Vec<_>>()
RECURSIVE Split(_, _)
Split(s, c) ==
    IF ~Contains(s, c) THEN <<s>>
    ELSE LET i == CHOOSE k \in 1..Len(s) :
                      s[k] = c /\ \A j \in 1..(k - 1) : s[j] # c
         IN <<SubSeq(s, 1, i - 1)>> \o Split(SubSeq(s, i + 1, Len(s)), c)

\* [&str]::join(sep)
RECURSIVE Join(_, _)
Join(segs, sep) ==
    IF segs = << >> THEN << >>
    ELSE IF Len(segs) = 1 THEN segs[1]
    ELSE segs[1] \o sep \o Join(Tail(segs), sep)

\* str::strip_prefix(&str) -> Option<&str>
StripPrefix(s, pre) ==
    IF Len(s) >= Len(pre) /\ SubSeq(s, 1, Len(pre)) = pre
    THEN Some(SubSeq(s, Len(pre) + 1, Len(s)))
    ELSE None

\* the digit loop of usize::from_str: checked_mul(10) then checked_add(digit)
RECURSIVE ParseDigits(_, _)
ParseDigits(ds, acc) ==
    IF ds = << >> THEN Some(acc)
    ELSE IF ~IsDigit(Head(ds)) THEN None
    ELSE IF acc * 10 > MaxUsize THEN None
    ELSE IF acc * 10 + DigitVal(Head(ds)) > MaxUsize THEN None
    ELSE ParseDigits(Tail(ds), acc * 10 + DigitVal(Head(ds)))

\* faulty variant of ParseUsize: an empty string parses as 0
ParseUsize_EmptyIsZero(s) ==
    IF s = << >> THEN Some(0)
    ELSE IF Len(s) = 1 /\ Head(s) \in {"+", "-"} THEN None
    ELSE IF Head(s) = "+" THEN ParseDigits(Tail(s), 0)
    ELSE ParseDigits(s, 0)

\* str::parse::<usize>().ok(): an empty string and a lone sign are errors, one
\* leading '+' is skipped, '-' is not a sign of an unsigned type
ParseUsize(s) ==
    IF s = << >> THEN None
    ELSE IF Len(s) = 1 /\ Head(s) \in {"+", "-"} THEN None
    ELSE IF Head(s) = "+" THEN ParseDigits(Tail(s), 0)
    ELSE ParseDigits(s, 0)

\* split_last() of the '#'-separated segments: (last, path)
SplitLast(segs) == <<segs[Len(segs)], SubSeq(segs, 1, Len(segs) - 1)>>

\* faulty variant of JoinSeparator: the path segments are joined without the '#'
JoinSeparator_Empty == << >>

JoinSeparator == <<"#">>

\* parse_scene(scene_path) -> (String, usize)
parse_scene(scene_path) ==
    IF Contains(scene_path, "#")
    THEN LET gltf_and_scene == Split(scene_path, "#")
             last  == SplitLast(gltf_and_scene)[1]
             path  == SplitLast(gltf_and_scene)[2]
             rest  == StripPrefix(last, ScenePrefix)
             index == IF rest = None THEN None ELSE ParseUsize(rest[1])
         IN IF index # None
            THEN <<Join(path, JoinSeparator), index[1]>>
            ELSE <<scene_path, 0>>
    ELSE <<scene_path, 0>>

\* ------------------------------------------------------------------------
\* Geometry
\* ------------------------------------------------------------------------
Splat(x) == <<x, x, x>>
VAdd(a, b) == <<a[1] + b[1], a[2] + b[2], a[3] + b[3]>>
VSub(a, b) == <<a[1] - b[1], a[2] - b[2], a[3] - b[3]>>
Min2(x, y) == IF x <= y THEN x ELSE y
Max2(x, y) == IF x >= y THEN x ELSE y
VMin(a, b) == <<Min2(a[1], b[1]), Min2(a[2], b[2]), Min2(a[3], b[3])>>
VMax(a, b) == <<Max2(a[1], b[1]), Max2(a[2], b[2]), Max2(a[3], b[3])>>
Dot(a, b) == a[1] * b[1] + a[2] * b[2] + a[3] * b[3]

\* Mat3 is a triple of rows
MatVec(m, v) == <<Dot(m[1], v), Dot(m[2], v), Dot(m[3], v)>>
MatCol(m, j) == <<m[1][j], m[2][j], m[3][j]>>
MatMul(a, b) ==
    [i \in 1..3 |-> [j \in 1..3 |-> Dot(a[i], MatCol(b, j))]]

\* f32::sqrt of a non-negative value: the nearest grid point
Sqrt(q) ==
    CHOOSE r \in 0..(q + 1) :
        /\ 4 * q < (2 * r + 1) * (2 * r + 1)
        /\ (r = 0 \/ (2 * r - 1) * (2 * r - 1) <= 4 * q)

\* Vec3A::length
Length(v) == Sqrt(Dot(v, v))

\* GlobalTransform::transform_point: matrix3 * point + translation
transform_point(t, point) == VAdd(MatVec(t.matrix3, point), t.translation)

\* faulty variants of radius_vec3a: the largest transformed extent instead of the
\* length, and the length of the extents without the transform
radius_vec3a_Largest(t, extents) ==
    LET v == MatVec(t.matrix3, extents)
    IN Max2(Max2(IF v[1] < 0 THEN -v[1] ELSE v[1], IF v[2] < 0 THEN -v[2] ELSE v[2]),
            IF v[3] < 0 THEN -v[3] ELSE v[3])
radius_vec3a_Unscaled(t, extents) == Length(extents)

\* GlobalTransform::radius_vec3a: (matrix3 * extents).length()
radius_vec3a(t, extents) == Length(MatVec(t.matrix3, extents))

\* Aabb::from(Sphere)
AabbFromSphere(sphere) ==
    [center |-> sphere.center, half_extents |-> Splat(sphere.radius)]

\* Aabb::min, Aabb::max
AabbMin(aabb) == VSub(aabb.center, aabb.half_extents)
AabbMax(aabb) == VAdd(aabb.center, aabb.half_extents)

\* the bounding sphere of one mesh instance in world space
WorldSphere(mesh) ==
    [center |-> transform_point(mesh.transform, mesh.aabb[1].center),
     radius |-> radius_vec3a(mesh.transform, mesh.aabb[1].half_extents)]

\* the loop over the meshes query: the running (min, max)
RECURSIVE Accumulate(_, _, _)
Accumulate(ms, min, max) ==
    IF ms = << >> THEN <<min, max>>
    ELSE LET aabb == AabbFromSphere(WorldSphere(Head(ms)))
         IN Accumulate(Tail(ms), VMin(min, AabbMin(aabb)), VMax(max, AabbMax(aabb)))

MergeBounds(ms) == Accumulate(ms, Splat(F32Max), Splat(-F32Max))

\* ------------------------------------------------------------------------
\* The systems
\* ------------------------------------------------------------------------
\* faulty variants of ShouldRun: the load-complete flag, or the internal flag,
\* is not consulted
ShouldRun_IgnoreLoaded(loaded, done) == ~done
ShouldRun_IgnoreDone(loaded, done) == loaded

\* the condition of the outer if of setup_scene_after_load
ShouldRun(loaded, done) == loaded /\ ~done

\* meshes.iter().any(|(_, maybe_aabb)| maybe_aabb.is_none())
AnyMissingAabb(ms) == \E i \in 1..Len(ms) : ms[i].aabb = None

\* faulty variant of NeedsDefaultLight: the light is spawned whatever the flag says
NeedsDefaultLight_Always(light) == TRUE

\* the condition of the default-light spawn
NeedsDefaultLight(light) == ~light

Camera == [kind |-> "Camera3d"]
DefaultLight == [kind |-> "DirectionalLight", shadows_enabled |-> FALSE]
Grid == [kind |-> "InfiniteGrid"]

\* faulty variant of SetupEntities: the grid is spawned before the camera
SetupEntities_GridFirst(light) ==
    <<Grid>> \o (IF NeedsDefaultLight(light) THEN <<DefaultLight>> ELSE << >>)
             \o <<Camera>>

\* the three commands.spawn calls of the setup pass, in program order
SetupEntities(light) ==
    <<Camera>> \o (IF NeedsDefaultLight(light) THEN <<DefaultLight>> ELSE << >>)
               \o <<Grid>>

\* has_light of a freshly created SceneHandle: whether the scene brings a light
SceneHandleLight == BOOLEAN

NoFrame ==
    [loaded_frames |-> 0, loaded |-> FALSE, all_aabb |-> FALSE, n_meshes |-> 0,
     ran |-> FALSE, first_missing |-> FALSE, ran_count |-> 0, entered_count |-> 0]

\* fn setup: the Startup system
Startup ==
    /\ ~started
    /\ LET scene_path == IF args = None THEN DefaultScenePath ELSE args[1]
           parsed == parse_scene(scene_path)
       IN /\ file_path' = parsed[1]
          /\ scene_index' = parsed[2]
    /\ started' = TRUE
    /\ is_loaded' = FALSE
    /\ has_light' \in SceneHandleLight
    /\ UNCHANGED <<args, setup, meshes, spawned, bbox, frame>>

\* fn setup_scene_after_load: one invocation of the PreUpdate system
SetupSceneAfterLoad ==
    /\ started
    /\ LET run  == ShouldRun(is_loaded, setup)
           pass == run /\ ~AnyMissingAabb(meshes)
       IN /\ setup' = IF run THEN TRUE ELSE setup
          /\ bbox' = IF pass THEN Some(MergeBounds(meshes)) ELSE bbox
          /\ spawned' = IF pass THEN spawned \o SetupEntities(has_light) ELSE spawned
          /\ has_light' = IF pass THEN TRUE ELSE has_light
          /\ frame' =
               [loaded_frames |->
                    IF is_loaded THEN Min2(frame.loaded_frames + 1, MaxFrames)
                    ELSE frame.loaded_frames,
                loaded |-> is_loaded,
                all_aabb |-> ~AnyMissingAabb(meshes),
                n_meshes |-> Len(meshes),
                ran |-> pass,
                first_missing |->
                    IF is_loaded /\ frame.loaded_frames = 0
                    THEN AnyMissingAabb(meshes) ELSE frame.first_missing,
                ran_count |->
                    IF pass THEN Min2(frame.ran_count + 1, MaxFrames)
                    ELSE frame.ran_count,
                entered_count |->
                    IF run THEN Min2(frame.entered_count + 1, MaxFrames)
                    ELSE frame.entered_count]
    /\ UNCHANGED <<args, started, file_path, scene_index, is_loaded, meshes>>

\* ------------------------------------------------------------------------
\* The host engine: asset loading and the entities of the scene
\* ------------------------------------------------------------------------
Identity == <<<<1, 0, 0>>, <<0, 1, 0>>, <<0, 0, 1>>>>
RotX == <<<<1, 0, 0>>, <<0, 0, -1>>, <<0, 1, 0>>>>
RotY == <<<<0, 0, 1>>, <<0, 1, 0>>, <<-1, 0, 0>>>>
RotZ == <<<<0, -1, 0>>, <<1, 0, 0>>, <<0, 0, 1>>>>

RECURSIVE MatPow(_, _)
MatPow(m, k) == IF k = 0 THEN Identity ELSE MatMul(m, MatPow(m, k - 1))

\* rotations by a multiple of 90 degrees about a coordinate axis
AxisRotations == {MatPow(r, k) : r \in {RotX, RotY, RotZ}, k \in 0..3}

Diag(s) == <<<<s[1], 0, 0>>, <<0, s[2], 0>>, <<0, 0, s[3]>>>>

\* Transform -> GlobalTransform: matrix3 = rotation * scale
TransformOf(translation, rotation, scale) ==
    [matrix3 |-> MatMul(rotation, Diag(scale)), translation |-> translation]

IdentityTransform == TransformOf(<<0, 0, 0>>, Identity, <<1, 1, 1>>)

SceneBoxes ==
    {[center |-> <<0, 0, 0>>, half_extents |-> <<1, 2, 2>>],
     [center |-> <<1, -1, 2>>, half_extents |-> <<0, 1, 0>>]}
SceneTransforms == {TransformOf(<<2, 0, -1>>, RotZ, <<1, 2, 1>>)}

\* the asset system flips SceneHandle.is_loaded
HostSetLoaded ==
    /\ started
    /\ is_loaded' = ~is_loaded
    /\ UNCHANGED <<args, started, file_path, scene_index, has_light, setup,
                   meshes, spawned, bbox, frame>>

\* a mesh instance of the scene appears, with or without its Aabb
HostSpawnMesh ==
    /\ started
    /\ Len(meshes) < MaxMeshes
    /\ \E t \in SceneTransforms, a \in {None} \cup {Some(b) : b \in SceneBoxes} :
          meshes' = Append(meshes, [transform |-> t, aabb |-> a])
    /\ UNCHANGED <<args, started, file_path, scene_index, is_loaded, has_light,
                   setup, spawned, bbox, frame>>

\* the engine computes the Aabb of a mesh instance that lacks one
HostComputeAabb ==
    /\ \E i \in 1..Len(meshes), b \in SceneBoxes :
          /\ meshes[i].aabb = None
          /\ meshes' = [meshes EXCEPT ![i].aabb = Some(b)]
    /\ UNCHANGED <<args, started, file_path, scene_index, is_loaded, has_light,
                   setup, spawned, bbox, frame>>

\* a mesh instance is despawned
HostDespawnMesh ==
    /\ \E i \in 1..Len(meshes) :
          meshes' = SubSeq(meshes, 1, i - 1) \o SubSeq(meshes, i + 1, Len(meshes))
    /\ UNCHANGED <<args, started, file_path, scene_index, is_loaded, has_light,
                   setup, spawned, bbox, frame>>

\* ------------------------------------------------------------------------
\* Specifications
\* ------------------------------------------------------------------------
BeforeStartup ==
    /\ started = FALSE
    /\ file_path = << >>
    /\ scene_index = 0
    /\ is_loaded = FALSE
    /\ has_light = FALSE
    /\ setup = FALSE
    /\ meshes = << >>
    /\ spawned = << >>
    /\ bbox = None
    /\ frame = NoFrame

SceneArg == <<"a", "#", "S", "c", "e", "n", "e", "2">>

Init ==
    /\ args \in {None, Some(SceneArg)}
    /\ BeforeStartup

Next ==
    \/ Startup
    \/ SetupSceneAfterLoad
    \/ HostSetLoaded
    \/ HostSpawnMesh
    \/ HostComputeAabb
    \/ HostDespawnMesh

Spec == Init /\ [][Next]_vars

\* ------------------------------------------------------------------------
\* Command-line arguments for the parser
\* ------------------------------------------------------------------------
\* usize written in decimal digits
RECURSIVE ToDecimal(_)
ToDecimal(n) ==
    IF n < 10 THEN <<DigitChars[n + 1]>>
    ELSE ToDecimal(n \div 10) \o <<DigitChars[(n % 10) + 1]>>

RECURSIVE SeqsUpTo(_, _)
SeqsUpTo(S, n) ==
    IF n = 0 THEN {<< >>}
    ELSE LET shorter == SeqsUpTo(S, n - 1)
         IN shorter \cup {Append(q, c) : q \in shorter, c \in S}

ArgPaths == {<< >>, <<"a">>, <<"#">>, <<"a", "#">>, <<"a", "#", "b">>}
ArgSeparators == {<< >>, <<"#">>}
ArgKeywords ==
    {<< >>, ScenePrefix, <<"S", "c", "e", "n">>, <<"s", "c", "e", "n", "e">>}
ArgTailChars == {"0", "1", "5", "9", "+", "-", "X", "#"}
ArgTails == SeqsUpTo(ArgTailChars, MaxTail)

\* a path, then any mix of separator, keyword and suffix
MixedArgs ==
    {p \o h \o k \o t :
        p \in ArgPaths, h \in ArgSeparators, k \in ArgKeywords, t \in ArgTails}

\* a path followed by "#Scene" and an index written in decimal digits
IndexedArgs ==
    {p \o <<"#">> \o ScenePrefix \o z \o ToDecimal(n) :
        p \in ArgPaths, z \in {<< >>, <<"0">>}, n \in 0..MaxUsize}

InitParse ==
    /\ args \in {None} \cup {Some(a) : a \in MixedArgs \cup IndexedArgs}
    /\ BeforeStartup

SpecParse == InitParse /\ [][Startup]_vars

\* ------------------------------------------------------------------------
\* Scenes for the bounding merge
\* ------------------------------------------------------------------------
\* largest half-extent of a local bounding box
MaxExtent == 2

BoundsCenters == {<<0, 0, 0>>, <<1, -2, 3>>}
BoundsExtents ==
    {<<x, y, z>> : x \in 0..MaxExtent, y \in 0..MaxExtent, z \in 0..MaxExtent}
BoundsScales == {<<1, 1, 1>>, <<2, 1, 3>>, <<-1, 2, 1>>}
BoundsTranslations == {<<0, 0, 0>>, <<-3, 1, 2>>}
BoundsTransforms ==
    {TransformOf(t, r, s) :
        t \in BoundsTranslations, r \in AxisRotations, s \in BoundsScales}
BoundsMeshes ==
    {[transform |-> t, aabb |-> Some([center |-> c, half_extents |-> h])] :
        t \in BoundsTransforms, c \in BoundsCenters, h \in BoundsExtents}
OtherMeshes ==
    {[transform |-> t, aabb |-> Some(b)] :
        t \in SceneTransforms, b \in SceneBoxes}

\* the scene is loaded and every instance has its Aabb; no frame has seen it yet
InitBounds ==
    /\ args = None
    /\ started = TRUE
    /\ file_path = DefaultScenePath
    /\ scene_index = 0
    /\ is_loaded = TRUE
    /\ has_light \in SceneHandleLight
    /\ setup = FALSE
    /\ meshes \in {<<m>> : m \in BoundsMeshes}
                  \cup {<<m, o>> : m \in BoundsMeshes, o \in OtherMeshes}
                  \cup {<<o, m>> : m \in BoundsMeshes, o \in OtherMeshes}
    /\ spawned = << >>
    /\ bbox = None
    /\ frame = NoFrame

SpecBounds == InitBounds /\ [][SetupSceneAfterLoad]_vars

\* ------------------------------------------------------------------------
\* Properties of setup_scene_after_load (specification Spec)
\* ------------------------------------------------------------------------
RECURSIVE CountKind(_, _)
CountKind(es, k) ==
    IF es = << >> THEN 0
    ELSE (IF Head(es).kind = k THEN 1 ELSE 0) + CountKind(Tail(es), k)

AllBounded == \A i \in 1..Len(meshes) : Len(meshes[i].aabb) = 1

\* C1: when the first frame that sees the load-complete flag finds a mesh
\* instance without a bounding box, and a later frame sees the flag with every
\* instance bounded, the setup pass has run exactly once by the end of that
\* later frame.
C1_DeferredSetupRetried ==
    (frame.first_missing /\ frame.loaded /\ frame.all_aabb)
        => frame.ran_count = 1

\* C2: something is spawned only by an invocation that sees the load-complete
\* flag set and every mesh instance bounded; an invocation that sees the flag
\* clear or an unbounded instance spawns nothing and leaves has_light alone.
C2_SpawnGuard ==
    [][/\ (spawned' # spawned) => (is_loaded /\ AllBounded)
       /\ (SetupSceneAfterLoad /\ ~(is_loaded /\ AllBounded))
              => (spawned' = spawned /\ has_light' = has_light)]_vars

W_C2_Spawned ==
    /\ frame.ran /\ frame.loaded /\ frame.all_aabb
    /\ frame.n_meshes = MaxMeshes
    /\ CountKind(spawned, "Camera3d") = 1

\* C3: the guarded body is entered at most once, so at most one camera and one
\* grid exist; the internal flag never goes back to false, and an invocation
\* that finds it true changes nothing.
C3_AtMostOnce ==
    /\ [](/\ frame.entered_count <= 1
          /\ CountKind(spawned, "Camera3d") <= 1
          /\ CountKind(spawned, "InfiniteGrid") <= 1)
    /\ [][setup => setup']_vars
    /\ [][(setup /\ SetupSceneAfterLoad)
              => UNCHANGED <<started, file_path, scene_index, is_loaded,
                             has_light, setup, meshes, spawned, bbox>>]_vars

W_C3_LaterInvocation ==
    /\ setup /\ frame.entered_count = 1 /\ frame.ran_count = 1
    /\ frame.loaded /\ frame.all_aabb /\ ~frame.ran
    /\ frame.loaded_frames >= 2

\* C4: the step in which the setup pass proceeds spawns exactly one directional
\* light with shadows disabled when has_light is false and no light when it is
\* true, and ends with has_light true; at most one default light is ever
\* spawned and has_light is true once the pass has proceeded.
C4_DefaultLight ==
    /\ [][(spawned' # spawned) =>
            /\ has_light'
            /\ CountKind(spawned', "DirectionalLight") =
                 CountKind(spawned, "DirectionalLight")
                     + (IF has_light THEN 0 ELSE 1)]_vars
    /\ [](/\ CountKind(spawned, "DirectionalLight") <= 1
          /\ \A i \in 1..Len(spawned) :
                spawned[i].kind = "DirectionalLight"
                    => spawned[i].shadows_enabled = FALSE
          /\ (frame.ran_count > 0 => has_light))

W_C4_LightSpawned ==
    /\ frame.ran /\ has_light
    /\ CountKind(spawned, "DirectionalLight") = 1

\* C10: there are as many cameras as grids, none or one of each; all entities
\* are spawned in one invocation, the camera first, then the light, then the
\* grid; a scene without mesh instances is set up by the first frame that sees
\* the load-complete flag.
C10_AllOrNothing ==
    /\ [](/\ CountKind(spawned, "Camera3d") = CountKind(spawned, "InfiniteGrid")
          /\ CountKind(spawned, "Camera3d") \in {0, 1}
          /\ \A i, j \in 1..Len(spawned) :
                /\ (spawned[i].kind = "Camera3d" /\ i # j) => i < j
                /\ (spawned[i].kind = "InfiniteGrid" /\ i # j) => j < i
          /\ (frame.loaded /\ frame.loaded_frames = 1 /\ frame.n_meshes = 0)
                => frame.ran)
    /\ [][(spawned' # spawned) =>
            (spawned = << >> /\ SetupSceneAfterLoad /\ Len(spawned') >= 2)]_vars

W_C10_EmptyScene ==
    /\ frame.loaded /\ frame.loaded_frames = 1 /\ frame.n_meshes = 0
    /\ frame.ran
    /\ Len(spawned) = 3
    /\ spawned[2].kind = "DirectionalLight"

\* ------------------------------------------------------------------------
\* Properties of parse_scene (specification SpecParse)
\* ------------------------------------------------------------------------
Parsed == started /\ args # None
Input == args[1]
Result == <<file_path, scene_index>>

AllDigits(s) == \A i \in 1..Len(s) : IsDigit(s[i])
Zeros(n) == [i \in 1..n |-> "0"]

\* the digit strings that denote n: its decimal numeral after any leading zeros
Denotes(s, n) ==
    \E z \in 0..(Len(s) - 1) : s = Zeros(z) \o ToDecimal(n)

\* what follows the last '#' of s (all of s when it has none)
LastSegment(s) ==
    LET hashes == {i \in 1..Len(s) : s[i] = "#"}
        from == IF hashes = {} THEN 1
                ELSE 1 + (CHOOSE i \in hashes : \A j \in hashes : j <= i)
    IN SubSeq(s, from, Len(s))

StartsWithScene(s) == Len(s) >= 5 /\ SubSeq(s, 1, 5) = ScenePrefix
AfterScene(s) == SubSeq(s, 6, Len(s))

\* C5: an argument that is a path p (with or without '#'), then "#Scene", then
\* a number N no larger than usize::MAX written in decimal digits, parses to
\* (p, N).
C5_SuffixConsumed ==
    Parsed =>
        \A k \in 1..Len(Input) :
            (/\ k + 6 <= Len(Input)
             /\ SubSeq(Input, k, k + 5) = <<"#">> \o ScenePrefix
             /\ AllDigits(SubSeq(Input, k + 6, Len(Input))))
            => \A n \in 0..MaxUsize :
                  Denotes(SubSeq(Input, k + 6, Len(Input)), n)
                      => Result = <<SubSeq(Input, 1, k - 1), n>>

W_C5_HashInPath ==
    /\ Parsed
    /\ Input = <<"a", "#", "b", "#">> \o ScenePrefix \o <<"5">>
    /\ Result = <<(<<"a", "#", "b">>), 5>>

\* the strings str::parse::<usize> accepts: an optional '+', then one or more
\* digits whose value is at most usize::MAX
ParsesAsIndex(s) ==
    LET ds == IF s # << >> /\ Head(s) = "+" THEN Tail(s) ELSE s
    IN /\ ds # << >>
       /\ AllDigits(ds)
       /\ \E n \in 0..MaxUsize : Denotes(ds, n)

\* C6: an argument without '#', or whose last segment does not start with
\* "Scene", or whose last segment continues after "Scene" with nothing or with
\* something that does not parse as an index, is returned unchanged with
\* index 0.
C6_SilentFallback ==
    Parsed =>
        ((\/ ~Contains(Input, "#")
          \/ ~StartsWithScene(LastSegment(Input))
          \/ AfterScene(LastSegment(Input)) = << >>
          \/ ~ParsesAsIndex(AfterScene(LastSegment(Input))))
            => Result = <<Input, 0>>)

W_C6_NonNumeric ==
    /\ Parsed
    /\ Input = <<"a", "#">> \o ScenePrefix \o <<"X">>
    /\ Result = <<Input, 0>>

\* C7: an argument whose last segment is not "Scene" followed by one or more
\* decimal digits is returned whole, with index 0.
C7_OnlySceneDigits ==
    Parsed =>
        (~(/\ StartsWithScene(LastSegment(Input))
           /\ AfterScene(LastSegment(Input)) # << >>
           /\ AllDigits(AfterScene(LastSegment(Input))))
            => Result = <<Input, 0>>)

\* ------------------------------------------------------------------------
\* Properties of the bounding merge (specification SpecBounds)
\* ------------------------------------------------------------------------
Merged == bbox # None
BoxMin == bbox[1][1]
BoxMax == bbox[1][2]
VLeq(a, b) == a[1] <= b[1] /\ a[2] <= b[2] /\ a[3] <= b[3]
Abs(x) == IF x < 0 THEN -x ELSE x
VNear(a, b) == \A i \in 1..3 : Abs(a[i] - b[i]) <= 1

SingleIdentity ==
    /\ Len(meshes) = 1
    /\ meshes[1].transform.matrix3 = Identity
    /\ meshes[1].transform.translation = <<0, 0, 0>>
LocalCenter == meshes[1].aabb[1].center
LocalExtents == meshes[1].aabb[1].half_extents

\* C8: for one mesh instance under the identity transform the merged box is the
\* local box, min = c - h and max = c + h, up to the rounding of one grid step.
C8_IdentityEqualsLocal ==
    (Merged /\ SingleIdentity) =>
        /\ VNear(BoxMin, VSub(LocalCenter, LocalExtents))
        /\ VNear(BoxMax, VAdd(LocalCenter, LocalExtents))

\* C8 as amended: for one mesh instance under the identity transform the
\* merged box is the cube around c whose half side r is the length of h,
\* rounded to the nearest grid point; it contains the local box and is the
\* local box only when h = 0.
C8_IdentityEnclosingCube ==
    (Merged /\ SingleIdentity) =>
        \E r \in 0..F32Max :
            /\ BoxMin = VSub(LocalCenter, Splat(r))
            /\ BoxMax = VAdd(LocalCenter, Splat(r))
            /\ 4 * Dot(LocalExtents, LocalExtents) < (2 * r + 1) * (2 * r + 1)
            /\ (r = 0 \/ (2 * r - 1) * (2 * r - 1)
                            <= 4 * Dot(LocalExtents, LocalExtents))
            /\ VLeq(BoxMin, VSub(LocalCenter, LocalExtents))
            /\ VLeq(VAdd(LocalCenter, LocalExtents), BoxMax)
            /\ (<<BoxMin, BoxMax>> = <<VSub(LocalCenter, LocalExtents),
                                       VAdd(LocalCenter, LocalExtents)>>
                    <=> LocalExtents = <<0, 0, 0>>)

W_C8_UnequalExtents ==
    /\ Merged /\ SingleIdentity /\ frame.ran
    /\ LocalExtents = <<0, 1, 2>>
    /\ LocalCenter = <<1, -2, 3>>

Signs == {<<x, y, z>> : x \in {-1, 1}, y \in {-1, 1}, z \in {-1, 1}}
Corner(box, sg) ==
    <<box.center[1] + sg[1] * box.half_extents[1],
      box.center[2] + sg[2] * box.half_extents[2],
      box.center[3] + sg[3] * box.half_extents[3]>>

\* C9: the merged box contains every corner of every instance's local box as
\* its world transform places it.
C9_Conservative ==
    Merged =>
        \A i \in 1..Len(meshes), sg \in Signs :
            LET world == transform_point(meshes[i].transform,
                                         Corner(meshes[i].aabb[1], sg))
            IN VLeq(BoxMin, world) /\ VLeq(world, BoxMax)

W_C9_RotatedScaled ==
    /\ Merged /\ frame.ran
    /\ Len(meshes) = 2
    /\ meshes[1].transform.matrix3 = MatMul(RotZ, Diag(<<2, 1, 3>>))
    /\ meshes[1].transform.translation = <<-3, 1, 2>>
    /\ meshes[1].aabb[1].half_extents = <<2, 0, 1>>

====
